---- MODULE Spec2Model ----
(***************************************************************************)
(* The resume analyzer backend: the POST /api/analyze handler of           *)
(* backend/routes/analyze.js and the global error handler of               *)
(* backend/server.js.                                                      *)
(*                                                                         *)
(* A JavaScript string is a sequence of one-character strings.  Any other  *)
(* JavaScript value is a tagged tuple whose first element is its type.     *)
(***************************************************************************)
EXTENDS Integers, Sequences, FiniteSets, TLC

VARIABLES nodeEnv, pc, body, calls, settle, responses, rawText, normalized,
          uiResume, uiJD, loading, result, error, inflight

vars == <<nodeEnv, pc, body, calls, settle, responses, rawText, normalized,
          uiResume, uiJD, loading, result, error, inflight>>
handlerVars == <<nodeEnv, pc, body, calls, settle, responses>>
normalizerVars == <<rawText, normalized>>
\* The state of the App component of the frontend (App.jsx lines 62-66): the
\* two texts (resume and jobDescription there), loading, result and error, and
\* the promises of the analyzeResume calls that have not been consumed.
uiVars == <<uiResume, uiJD, loading, result, error, inflight>>

(***************************************************************************)
(* Bounds of the model.                                                    *)
(***************************************************************************)
\* Longest run of white space put before and after a request text.
MaxPad == 1
\* Request texts have lengths within Slack of each threshold and each cap.
Slack == 1
\* Number of fragments concatenated into a raw model output.
MaxFrags == 3

(***************************************************************************)
(* Program constants.                                                      *)
(***************************************************************************)
MinResumeLen == 50
MinJDLen == 30
ResumeCap == 6000
JDCap == 3000
MaxTokens == 1000

(***************************************************************************)
(* Strings.                                                                *)
(***************************************************************************)
\* The characters String.prototype.trim and the regex class \s remove.
WhiteSpace == {" ", "\t", "\n", "\r", "\f"}

IsWS(c) == c \in WhiteSpace

Rep(c, n) == [i \in 1..n |-> c]

\* String.prototype.trim
Trim(s) ==
  LET n == Len(s) IN
  IF \A i \in 1..n : IsWS(s[i]) THEN << >>
  ELSE LET lead  == CHOOSE k \in 0..(n-1) : ~IsWS(s[k+1]) /\ \A j \in 1..k : IsWS(s[j])
           trail == CHOOSE k \in 0..(n-1) : ~IsWS(s[n-k]) /\ \A j \in (n-k+1)..n : IsWS(s[j])
       IN SubSeq(s, lead + 1, n - trail)

Clamp(x, n) == IF x < 0 THEN 0 ELSE IF x > n THEN n ELSE x

\* String.prototype.substring(start, end): both indices are clamped to
\* [0, length] and swapped when start > end.
Substring(s, start, end) ==
  LET a == Clamp(start, Len(s))
      b == Clamp(end, Len(s))
  IN IF a <= b THEN SubSeq(s, a + 1, b) ELSE SubSeq(s, b + 1, a)

(***************************************************************************)
(* JavaScript values.                                                      *)
(***************************************************************************)
Undefined == <<"undefined">>
Null == <<"null">>
JBool(b) == <<"bool", b>>
\* The number m * 10^e.
JNum(m, e) == <<"num", m, e>>
JStr(s) == <<"str", s>>
JArr(items) == <<"arr", items>>
\* entries: a function from the keys (strings) to their values.
JObj(entries) == <<"obj", entries>>

TypeOf(v) == v[1]

\* ToBoolean, as used by the ! operator.
Truthy(v) ==
  CASE TypeOf(v) = "undefined" -> FALSE
    [] TypeOf(v) = "null" -> FALSE
    [] TypeOf(v) = "bool" -> v[2]
    [] TypeOf(v) = "num" -> v[2] # 0
    [] TypeOf(v) = "str" -> Len(v[2]) > 0
    [] OTHER -> TRUE

(***************************************************************************)
(* Errors and responses.                                                   *)
(***************************************************************************)
\* An Error object.  statusCode 0 stands for an error without that property.
Error(name, message, statusCode) ==
  [name |-> name, message |-> message, statusCode |-> statusCode,
   stack |-> name \o ": " \o message \o "\n    at <frames>"]

\* The TypeError of calling v.trim() on a truthy value that has no trim method.
TrimTypeError(field) == Error("TypeError", field \o ".trim is not a function", 0)

Response(status, json) == [status |-> status, body |-> json]

ResumeTooShortMsg == "Resume must be at least 50 characters."
JDTooShortMsg == "Job description must be at least 30 characters."
UnexpectedFormatMsg == "AI returned unexpected format. Please try again."

\* server.js: app.use((err, req, res, next) => ...)
\* ErrorHandler that withholds the stack in production only.
ErrorHandlerUnlessProduction(err, env) ==
  Response(IF err.statusCode # 0 THEN err.statusCode ELSE 500,
           IF env # "production"
             THEN [error |-> IF err.message # "" THEN err.message ELSE "Internal Server Error",
                   stack |-> err.stack]
             ELSE [error |-> IF err.message # "" THEN err.message ELSE "Internal Server Error"])

ErrorHandler(err, env) ==
  Response(IF err.statusCode # 0 THEN err.statusCode ELSE 500,
           IF env = "development"
             THEN [error |-> IF err.message # "" THEN err.message ELSE "Internal Server Error",
                   stack |-> err.stack]
             ELSE [error |-> IF err.message # "" THEN err.message ELSE "Internal Server Error"])

(***************************************************************************)
(* Input validation: analyze.js lines 9-16.                                *)
(***************************************************************************)
\* !v || v.trim().length < min : "yes", "no", or "throw" when v is truthy and
\* has no trim method.
TooShort(v, min) ==
  IF ~Truthy(v) THEN "yes"
  ELSE IF TypeOf(v) # "str" THEN "throw"
  ELSE IF Len(Trim(v[2])) < min THEN "yes"
  ELSE "no"

\* Validate with the two checks in the other order.
ValidateJDFirst(b) ==
  LET j == TooShort(b.jobDescription, MinJDLen) IN
  IF j = "yes" THEN [kind |-> "respond", response |-> Response(400, [error |-> JDTooShortMsg])]
  ELSE IF j = "throw" THEN [kind |-> "throw", error |-> TrimTypeError("jobDescription")]
  ELSE LET r == TooShort(b.resume, MinResumeLen) IN
       IF r = "yes" THEN [kind |-> "respond", response |-> Response(400, [error |-> ResumeTooShortMsg])]
       ELSE IF r = "throw" THEN [kind |-> "throw", error |-> TrimTypeError("resume")]
       ELSE [kind |-> "ok"]

\* The outcome of the two checks, the resume first.
Validate(b) ==
  LET r == TooShort(b.resume, MinResumeLen) IN
  IF r = "yes" THEN [kind |-> "respond", response |-> Response(400, [error |-> ResumeTooShortMsg])]
  ELSE IF r = "throw" THEN [kind |-> "throw", error |-> TrimTypeError("resume")]
  ELSE LET j == TooShort(b.jobDescription, MinJDLen) IN
       IF j = "yes" THEN [kind |-> "respond", response |-> Response(400, [error |-> JDTooShortMsg])]
       ELSE IF j = "throw" THEN [kind |-> "throw", error |-> TrimTypeError("jobDescription")]
       ELSE [kind |-> "ok"]

(***************************************************************************)
(* Prompt construction: analyze.js lines 18-55.                            *)
(***************************************************************************)
\* SafeResume with the cap applied before the trim.
SafeResumeCapFirst(b) == Trim(Substring(b.resume[2], 0, ResumeCap))

SafeResume(b) == Substring(Trim(b.resume[2]), 0, ResumeCap)

\* SafeJD without the trim.
SafeJDNoTrim(b) == Substring(b.jobDescription[2], 0, JDCap)

SafeJD(b) == Substring(Trim(b.jobDescription[2]), 0, JDCap)

UserHead ==
    << "A", "n", "a", "l", "y", "z", "e", " ", "t", "h", "i", "s", " ", "r", "e", "s", "u",
       "m", "e", " ", "a", "g", "a", "i", "n", "s", "t", " ", "t", "h", "e", " ", "j", "o",
       "b", " ", "d", "e", "s", "c", "r", "i", "p", "t", "i", "o", "n", ".", "\n", "\n", "=",
       "=", "=", " ", "R", "E", "S", "U", "M", "E", " ", "=", "=", "=", "\n" >>

UserMid ==
    << "\n", "\n", "=", "=", "=", " ", "J", "O", "B", " ", "D", "E", "S", "C", "R", "I", "P",
       "T", "I", "O", "N", " ", "=", "=", "=", "\n" >>

UserTail ==
    << "\n", "\n", "R", "e", "t", "u", "r", "n", " ", "O", "N", "L", "Y", " ", "t", "h", "e",
       " ", "J", "S", "O", "N", " ", "o", "b", "j", "e", "c", "t", "." >>

UserMessage(resume, jd) == UserHead \o resume \o UserMid \o jd \o UserTail

\* The system message is a fixed text; it is kept as one opaque string.
SystemMessage == "You are an expert ATS and career coach AI. Return ONLY valid JSON ..."

\* The argument of groq.chat.completions.create.  temperature is 0.2 = 2/10.
CompletionRequest(b) ==
  [model |-> "llama-3.3-70b-versatile",
   temperature |-> <<2, 10>>,
   max_tokens |-> MaxTokens,
   messages |-> << [role |-> "system", content |-> SystemMessage],
                   [role |-> "user", content |-> UserMessage(SafeResume(b), SafeJD(b))] >>]

(***************************************************************************)
(* Fence stripping: analyze.js lines 61-64.                                *)
(***************************************************************************)
\* The backtick character, which a TLA+ string literal cannot hold.
Tick == "<backtick>"

IsFenceAt(s, i) ==
  i + 2 <= Len(s) /\ s[i] = Tick /\ s[i+1] = Tick /\ s[i+2] = Tick

\* The letters j s o n in either case (the i flag).
IsJsonTagAt(s, i) ==
  /\ i + 3 <= Len(s)
  /\ s[i] \in {"j", "J"} /\ s[i+1] \in {"s", "S"}
  /\ s[i+2] \in {"o", "O"} /\ s[i+3] \in {"n", "N"}

\* Length of the marker matched at position i, 0 when none is: three backticks
\* followed by json when tagged, three backticks otherwise.
MarkerLen(s, i, tagged) ==
  IF ~IsFenceAt(s, i) THEN 0
  ELSE IF tagged THEN (IF IsJsonTagAt(s, i + 3) THEN 7 ELSE 0)
  ELSE 3

\* The first position from i on that holds no white space: the greedy \s part.
SkipWS(s, i) ==
  IF \A k \in i..Len(s) : IsWS(s[k]) THEN Len(s) + 1
  ELSE CHOOSE k \in i..Len(s) : ~IsWS(s[k]) /\ \A j \in i..(k-1) : IsWS(s[j])

\* s.replace(regex, empty) from position i on: every match, leftmost
\* first and not overlapping (the g flag), is removed.
RECURSIVE RemoveFrom(_, _, _)
RemoveFrom(s, i, tagged) ==
  LET hits == {k \in i..Len(s) : MarkerLen(s, k, tagged) > 0} IN
  IF hits = {} THEN SubSeq(s, i, Len(s))
  ELSE LET m == CHOOSE k \in hits : \A h \in hits : k <= h
       IN SubSeq(s, i, m - 1) \o RemoveFrom(s, SkipWS(s, m + MarkerLen(s, m, tagged)), tagged)

\* One replace without the g flag: only the first marker is removed.
RemoveFirst(s, tagged) ==
  LET hits == {k \in 1..Len(s) : MarkerLen(s, k, tagged) > 0} IN
  IF hits = {} THEN s
  ELSE LET m == CHOOSE k \in hits : \A h \in hits : k <= h
       IN SubSeq(s, 1, m - 1) \o SubSeq(s, SkipWS(s, m + MarkerLen(s, m, tagged)), Len(s))

\* StripFences with both regular expressions lacking the g flag.
StripFencesOnce(s) == RemoveFirst(RemoveFirst(s, TRUE), FALSE)

\* The two replace calls: first the tagged marker, then the bare one.
StripFences(s) == RemoveFrom(RemoveFrom(s, 1, TRUE), 1, FALSE)

\* const cleaned = rawContent.replace(...).replace(...).trim()
Cleaned(s) == Trim(StripFences(s))

(***************************************************************************)
(* JSON.parse (analyze.js line 65) on texts without backslashes: a string  *)
(* literal runs to the next double quote.                                  *)
(***************************************************************************)
JSONWhiteSpace == {" ", "\t", "\n", "\r"}

Digit == {"0", "1", "2", "3", "4", "5", "6", "7", "8", "9"}

DigitValue(c) ==
  CASE c = "0" -> 0 [] c = "1" -> 1 [] c = "2" -> 2 [] c = "3" -> 3 [] c = "4" -> 4
    [] c = "5" -> 5 [] c = "6" -> 6 [] c = "7" -> 7 [] c = "8" -> 8 [] c = "9" -> 9

\* Characters that may not appear unescaped inside a string literal.
ControlChar == {"\t", "\n", "\r", "\f"}

ParseFail == [ok |-> FALSE, val |-> Undefined, next |-> 0]

ParseOk(v, n) == [ok |-> TRUE, val |-> v, next |-> n]

\* The first position from i on whose character is not in set.
SkipSet(s, i, set) ==
  IF \A k \in i..Len(s) : s[k] \in set THEN Len(s) + 1
  ELSE CHOOSE k \in i..Len(s) : s[k] \notin set /\ \A j \in i..(k-1) : s[j] \in set

MatchesAt(s, i, word) ==
  i + Len(word) - 1 <= Len(s) /\ SubSeq(s, i, i + Len(word) - 1) = word

RECURSIVE DigitsToInt(_)
DigitsToInt(d) ==
  IF d = << >> THEN 0
  ELSE 10 * DigitsToInt(SubSeq(d, 1, Len(d) - 1)) + DigitValue(d[Len(d)])

\* The same number with a mantissa that does not end in 0.
RECURSIVE NormalNumber(_, _)
NormalNumber(m, e) ==
  IF m = 0 THEN JNum(0, 0)
  ELSE IF m % 10 = 0 THEN NormalNumber(m \div 10, e + 1)
  ELSE JNum(m, e)

\* A JSON number: optional minus, integer part without leading zeros, optional
\* fraction, optional exponent.
ParseNumber(s, i) ==
  LET neg == s[i] = "-"
      p == IF neg THEN i + 1 ELSE i
      q == SkipSet(s, p, Digit)
      hasFrac == q <= Len(s) /\ s[q] = "."
      f == IF hasFrac THEN SkipSet(s, q + 1, Digit) ELSE q
      hasExp == f <= Len(s) /\ s[f] \in {"e", "E"}
      signed == hasExp /\ f + 1 <= Len(s) /\ s[f+1] \in {"+", "-"}
      g == IF signed THEN f + 2 ELSE f + 1
      h == IF hasExp THEN SkipSet(s, g, Digit) ELSE f
  IN IF \/ q = p
        \/ (s[p] = "0" /\ q > p + 1)
        \/ (hasFrac /\ f = q + 1)
        \/ (hasExp /\ h = g)
     THEN ParseFail
     ELSE LET digits == SubSeq(s, p, q - 1) \o (IF hasFrac THEN SubSeq(s, q + 1, f - 1) ELSE << >>)
              fracLen == IF hasFrac THEN f - q - 1 ELSE 0
              mag == DigitsToInt(digits)
              ex == IF hasExp THEN DigitsToInt(SubSeq(s, g, h - 1)) ELSE 0
              exp == IF signed /\ s[f+1] = "-" THEN 0 - ex ELSE ex
          IN ParseOk(NormalNumber(IF neg THEN 0 - mag ELSE mag, exp - fracLen), h)

\* s[i] is the opening double quote.
ParseString(s, i) ==
  LET close == SkipSet(s, i + 1, {c \in {s[k] : k \in (i+1)..Len(s)} : c # "\""})
  IN IF close > Len(s) THEN ParseFail
     ELSE IF \E k \in (i+1)..(close-1) : s[k] \in ControlChar THEN ParseFail
     ELSE ParseOk(JStr(SubSeq(s, i + 1, close - 1)), close + 1)

RECURSIVE ParseValue(_, _), ParseElements(_, _, _), ParseMembers(_, _, _)

\* A value starting at or after position i, white space skipped before it.
ParseValue(s, i) ==
  LET j == SkipSet(s, i, JSONWhiteSpace) IN
  IF j > Len(s) THEN ParseFail
  ELSE CASE s[j] = "{" ->
              LET k == SkipSet(s, j + 1, JSONWhiteSpace) IN
              IF k <= Len(s) /\ s[k] = "}" THEN ParseOk(JObj(<< >>), k + 1)
              ELSE ParseMembers(s, k, << >>)
         [] s[j] = "[" ->
              LET k == SkipSet(s, j + 1, JSONWhiteSpace) IN
              IF k <= Len(s) /\ s[k] = "]" THEN ParseOk(JArr(<< >>), k + 1)
              ELSE ParseElements(s, k, << >>)
         [] s[j] = "\"" -> ParseString(s, j)
         [] s[j] = "-" \/ s[j] \in Digit -> ParseNumber(s, j)
         [] MatchesAt(s, j, <<"t", "r", "u", "e">>) -> ParseOk(JBool(TRUE), j + 4)
         [] MatchesAt(s, j, <<"f", "a", "l", "s", "e">>) -> ParseOk(JBool(FALSE), j + 5)
         [] MatchesAt(s, j, <<"n", "u", "l", "l">>) -> ParseOk(Null, j + 4)
         [] OTHER -> ParseFail

\* The elements of an array from position i on, acc holding those before.
ParseElements(s, i, acc) ==
  LET v == ParseValue(s, i) IN
  IF ~v.ok THEN ParseFail
  ELSE LET k == SkipSet(s, v.next, JSONWhiteSpace) IN
       IF k > Len(s) THEN ParseFail
       ELSE IF s[k] = "," THEN ParseElements(s, k + 1, Append(acc, v.val))
       ELSE IF s[k] = "]" THEN ParseOk(JArr(Append(acc, v.val)), k + 1)
       ELSE ParseFail

\* The members of an object from position i on; acc maps the keys before to
\* their values, a repeated key keeping its last value.
ParseMembers(s, i, acc) ==
  LET j == SkipSet(s, i, JSONWhiteSpace) IN
  IF j > Len(s) \/ s[j] # "\"" THEN ParseFail
  ELSE LET key == ParseString(s, j) IN
       IF ~key.ok THEN ParseFail
       ELSE LET c == SkipSet(s, key.next, JSONWhiteSpace) IN
            IF c > Len(s) \/ s[c] # ":" THEN ParseFail
            ELSE LET v == ParseValue(s, c + 1) IN
                 IF ~v.ok THEN ParseFail
                 ELSE LET k == SkipSet(s, v.next, JSONWhiteSpace)
                          more == (key.val[2] :> v.val) @@ acc
                      IN IF k > Len(s) THEN ParseFail
                         ELSE IF s[k] = "," THEN ParseMembers(s, k + 1, more)
                         ELSE IF s[k] = "}" THEN ParseOk(JObj(more), k + 1)
                         ELSE ParseFail

\* JSON.parse(s): one value, nothing but white space around it.
JSONParse(s) ==
  LET v == ParseValue(s, 1) IN
  IF v.ok /\ SkipSet(s, v.next, JSONWhiteSpace) > Len(s) THEN v ELSE ParseFail

(***************************************************************************)
(* After the remote call: analyze.js lines 57-75.                          *)
(***************************************************************************)
\* The reply of the remote call: choices is a sequence of choice objects,
\* the message of a choice is <<"message", content>> or Undefined.
Completion(choices) == [choices |-> choices]

Choice(message) == [message |-> message]

Message(content) == <<"message", content>>

ContentReply(content) == Completion(<< Choice(Message(content)) >>)

\* The TypeError of reading a property of undefined.
ReadTypeError(property) ==
  Error("TypeError", "Cannot read properties of undefined (reading '" \o property \o "')", 0)

\* line 57: completion.choices[0].message.content
RawContent(completion) ==
  IF Len(completion.choices) = 0 THEN [kind |-> "throw", error |-> ReadTypeError("message")]
  ELSE LET m == completion.choices[1].message IN
       IF m = Undefined THEN [kind |-> "throw", error |-> ReadTypeError("content")]
       ELSE [kind |-> "value", val |-> m[2]]

\* Normalize that takes a content that is no string as the result itself.
NormalizeLenient(raw) ==
  IF TypeOf(raw) # "str" THEN [ok |-> TRUE, val |-> raw, next |-> 0]
  ELSE JSONParse(Cleaned(raw[2]))

\* lines 60-68: the inner try.  Calling replace on anything but a string throws
\* a TypeError, which the inner catch treats like a SyntaxError of JSON.parse.
Normalize(raw) ==
  IF TypeOf(raw) # "str" THEN ParseFail
  ELSE JSONParse(Cleaned(raw[2]))

FormatFailure == Response(500, [error |-> UnexpectedFormatMsg])

\* Success with an error field next to the data.
SuccessWithError(data) == Response(200, [success |-> TRUE, data |-> data, error |-> ""])

\* Success without the success flag.
SuccessNoFlag(data) == Response(200, [data |-> data])

Success(data) == Response(200, [success |-> TRUE, data |-> data])

\* AfterCompletion without the inner try: a parse failure reaches the outer
\* catch and the global error handler.
AfterCompletionNoInnerTry(completion, env) ==
  LET rc == RawContent(completion) IN
  IF rc.kind = "throw" THEN ErrorHandler(rc.error, env)
  ELSE LET parsed == Normalize(rc.val) IN
       IF ~parsed.ok
       THEN ErrorHandler(Error("SyntaxError", "Unexpected token in JSON", 0), env)
       ELSE Success(parsed.val)

\* lines 57-75 once the call has resolved: the response sent, by the handler or,
\* for an error thrown outside the inner try, by the global error handler.
AfterCompletion(completion, env) ==
  LET rc == RawContent(completion) IN
  IF rc.kind = "throw" THEN ErrorHandler(rc.error, env)
  ELSE LET parsed == Normalize(rc.val) IN
       IF ~parsed.ok THEN FormatFailure ELSE Success(parsed.val)

\* lines 72-75 once the call has rejected: catch, then next(error).
AfterRejection(err, env) == ErrorHandler(err, env)

(***************************************************************************)
(* JSON documents, from which the replies of the remote model are built.   *)
(* A document is a JSON syntax tree: like a value, but an object is the    *)
(* sequence of its <<key, document>> members as written.                   *)
(***************************************************************************)
DigitChar(d) == <<"0", "1", "2", "3", "4", "5", "6", "7", "8", "9">>[d + 1]

RECURSIVE NatText(_)
NatText(n) == IF n < 10 THEN <<DigitChar(n)>> ELSE NatText(n \div 10) \o <<DigitChar(n % 10)>>

Abs(n) == IF n < 0 THEN 0 - n ELSE n

\* The literal of m * 10^e: plain for e = 0, with a decimal point for e < 0,
\* with an exponent for e > 0.
NumText(m, e) ==
  LET sign == IF m < 0 THEN <<"-">> ELSE << >>
      d == NatText(Abs(m))
  IN IF e = 0 THEN sign \o d
     ELSE IF e > 0 THEN sign \o d \o <<"e">> \o NatText(e)
     ELSE LET padded == Rep("0", (1 - e) - Len(d)) \o d
              cut == Len(padded) + e
          IN sign \o SubSeq(padded, 1, cut) \o <<".">> \o SubSeq(padded, cut + 1, Len(padded))

Quoted(s) == <<"\"">> \o s \o <<"\"">>

RECURSIVE DocText(_), ElementsText(_), MembersText(_)
DocText(d) ==
  CASE d[1] = "null" -> <<"n", "u", "l", "l">>
    [] d[1] = "bool" -> IF d[2] THEN <<"t", "r", "u", "e">> ELSE <<"f", "a", "l", "s", "e">>
    [] d[1] = "num" -> NumText(d[2], d[3])
    [] d[1] = "str" -> Quoted(d[2])
    [] d[1] = "arr" -> <<"[">> \o ElementsText(d[2]) \o <<"]">>
    [] d[1] = "obj" -> <<"{">> \o MembersText(d[2]) \o <<"}">>

ElementsText(ds) ==
  IF ds = << >> THEN << >>
  ELSE IF Len(ds) = 1 THEN DocText(ds[1])
  ELSE DocText(ds[1]) \o <<",">> \o ElementsText(Tail(ds))

MembersText(ms) ==
  IF ms = << >> THEN << >>
  ELSE IF Len(ms) = 1 THEN Quoted(ms[1][1]) \o <<":">> \o DocText(ms[1][2])
  ELSE Quoted(ms[1][1]) \o <<":">> \o DocText(ms[1][2]) \o <<",">> \o MembersText(Tail(ms))

\* The value a document denotes.
RECURSIVE DocValue(_)
DocValue(d) ==
  CASE d[1] = "num" -> NormalNumber(d[2], d[3])
    [] d[1] = "arr" -> JArr([i \in 1..Len(d[2]) |-> DocValue(d[2][i])])
    [] d[1] = "obj" ->
         LET ms == d[2]
             lastOf(k) == CHOOSE i \in 1..Len(ms) :
                            ms[i][1] = k /\ \A j \in (i+1)..Len(ms) : ms[j][1] # k
         IN JObj([k \in {ms[i][1] : i \in 1..Len(ms)} |-> DocValue(ms[lastOf(k)][2])])
    [] OTHER -> d

\* The object document d with the member key set to document x, or removed.
With(d, key, x) ==
  <<"obj", [i \in 1..Len(d[2]) |-> IF d[2][i][1] = key THEN <<key, x>> ELSE d[2][i]]>>

Without(d, key) == <<"obj", SelectSeq(d[2], LAMBDA m : m[1] # key)>>

StrList(chars) == <<"arr", [i \in 1..Len(chars) |-> <<"str", <<chars[i]>>>>]>>

K_matchScore ==
    << "m", "a", "t", "c", "h", "S", "c", "o", "r", "e" >>

K_performanceRating ==
    << "p", "e", "r", "f", "o", "r", "m", "a", "n", "c", "e", "R", "a", "t", "i", "n", "g" >>

K_strengths ==
    << "s", "t", "r", "e", "n", "g", "t", "h", "s" >>

K_weaknesses ==
    << "w", "e", "a", "k", "n", "e", "s", "s", "e", "s" >>

K_improvementSuggestions ==
    << "i", "m", "p", "r", "o", "v", "e", "m", "e", "n", "t", "S", "u", "g", "g", "e", "s",
       "t", "i", "o", "n", "s" >>

K_keywordsFound ==
    << "k", "e", "y", "w", "o", "r", "d", "s", "F", "o", "u", "n", "d" >>

K_keywordsMissing ==
    << "k", "e", "y", "w", "o", "r", "d", "s", "M", "i", "s", "s", "i", "n", "g" >>

K_summary ==
    << "s", "u", "m", "m", "a", "r", "y" >>

RequiredKeys ==
  {K_matchScore, K_performanceRating, K_strengths, K_weaknesses,
   K_improvementSuggestions, K_keywordsFound, K_keywordsMissing, K_summary}

\* The three array fields that must hold 3 to 5 strings.
CountedKeys == {K_strengths, K_weaknesses, K_improvementSuggestions}

Ratings ==
  { << "E", "x", "c", "e", "l", "l", "e", "n", "t" >>,
    << "G", "o", "o", "d" >>,
    << "A", "v", "e", "r", "a", "g", "e" >>,
    << "B", "e", "l", "o", "w", " ", "A", "v", "e", "r", "a", "g", "e" >>,
    << "P", "o", "o", "r" >> }

\* The reply of the system prompt's own example (scenario A of the README).
GoodDoc ==
  <<"obj",
    << <<K_matchScore, <<"num", 85, 0>>>>,
       <<K_performanceRating, <<"str", << "G", "o", "o", "d" >>>>>>,
       <<K_strengths, StrList(<<"a", "b", "c">>)>>,
       <<K_weaknesses, StrList(<<"d", "e", "f">>)>>,
       <<K_improvementSuggestions, StrList(<<"g", "h", "i">>)>>,
       <<K_keywordsFound, StrList(<<"x">>)>>,
       <<K_keywordsMissing, StrList(<<"y">>)>>,
       <<K_summary, <<"str", << "o", "k", " ", "o", "k", " ", "o", "k" >>>>>> >> >>

(***************************************************************************)
(* The request bodies a client may send.                                   *)
(***************************************************************************)
\* A text of n >= 2 characters that starts with a, ends with z and has a
\* space at every tenth position.
Sample(n) ==
  [i \in 1..n |-> IF i = 1 THEN "a" ELSE IF i = n THEN "z" ELSE IF i % 10 = 0 THEN " " ELSE "x"]

Padded(lead, n, trail) == Rep(" ", lead) \o Sample(n) \o Rep("\n", trail)

Pads == 0..MaxPad

\* Texts whose trimmed length is within Slack of the minimum or of the cap,
\* with MaxPad characters of white space split between the two ends.
TextsAround(min, cap) ==
  {Padded(l, n, MaxPad - l) : l \in Pads,
                              n \in ((min - Slack)..(min + Slack)) \cup ((cap - Slack)..(cap + Slack))}

\* Values a JSON body can hold in a field, or leave out, that are no strings.
NonStrings ==
  {Undefined, Null, JBool(FALSE), JBool(TRUE), JNum(0, 0), JNum(12345, 0),
   JArr(<< >>), JArr(<<JStr(Sample(60))>>), JObj(<< >>)}

ResumeValues ==
  NonStrings \cup {JStr(<< >>), JStr(Rep(" ", 60)), JStr(Sample(10))}
             \cup {JStr(s) : s \in TextsAround(MinResumeLen, ResumeCap)}

JDValues ==
  NonStrings \cup {JStr(<< >>), JStr(Rep(" ", 40)), JStr(Sample(10))}
             \cup {JStr(s) : s \in TextsAround(MinJDLen, JDCap)}

Body(resume, jd) == [resume |-> resume, jobDescription |-> jd]

GoodResume == JStr(Sample(60))

GoodJD == JStr(Sample(40))

\* One field varies while the other is acceptable, every pair of two
\* unacceptable or boundary values, and two texts over their caps.
Bodies ==
  {Body(r, GoodJD) : r \in ResumeValues}
    \cup {Body(GoodResume, j) : j \in JDValues}
    \cup {Body(r, j) : r \in NonStrings \cup {JStr(Sample(10)), JStr(Padded(MaxPad, MinResumeLen, MaxPad))},
                       j \in NonStrings \cup {JStr(Sample(10)), JStr(Padded(MaxPad, MinJDLen, MaxPad))}}
    \cup {Body(JStr(Padded(MaxPad, ResumeCap + Slack, MaxPad)), JStr(Padded(MaxPad, JDCap + Slack, MaxPad)))}

(***************************************************************************)
(* The replies of the remote model.                                        *)
(***************************************************************************)
Fence == <<Tick, Tick, Tick>>

FenceTags == { << >>, <<"j", "s", "o", "n">>, <<"J", "S", "O", "N">>, <<"J", "s", "o", "n">> }

\* A fence: the opening marker, bare or tagged json in any case, followed by
\* white space, and the closing marker, on a line of its own or not.
Wrappers ==
  {[open |-> Fence \o tag \o ws, close |-> pre \o Fence \o post] :
     tag \in FenceTags, ws \in {<<"\n">>, <<" ">>, <<"\r", "\n">>},
     pre \in {<< >>, <<"\n">>}, post \in {<< >>, <<"\n">>}}

Wrap(w, t) == w.open \o t \o w.close

JsonFence == [open |-> Fence \o <<"j", "s", "o", "n", "\n">>, close |-> <<"\n">> \o Fence]

BareFence == [open |-> Fence \o <<"\n">>, close |-> <<"\n">> \o Fence]

\* Documents that conform to the result schema of the system prompt.
ConformingDocs ==
  {GoodDoc,
   With(GoodDoc, K_matchScore, <<"num", 0, 0>>),
   With(GoodDoc, K_matchScore, <<"num", 100, 0>>),
   With(GoodDoc, K_strengths, StrList(<<"a", "b", "c", "d", "e">>)),
   With(GoodDoc, K_keywordsFound, <<"arr", << >>>>)}
    \cup {With(GoodDoc, K_performanceRating, <<"str", r>>) : r \in Ratings}

\* Objects that lack a required field, or hold a match score or a rating
\* outside the schema.
BadFieldDocs ==
  {Without(GoodDoc, k) : k \in RequiredKeys}
    \cup {With(GoodDoc, K_matchScore, x) :
            x \in {<<"num", -1, 0>>, <<"num", 101, 0>>, <<"num", 150, 0>>, <<"num", 855, -1>>,
                   <<"str", <<"8", "5">>>>, <<"null">>}}
    \cup {With(GoodDoc, K_performanceRating, x) :
            x \in {<<"str", <<"G", "r", "e", "a", "t">>>>, <<"str", <<"g", "o", "o", "d">>>>,
                   <<"num", 5, 0>>}}
    \cup {<<"obj", << >>>>}

\* Objects whose counted array fields break the 3-to-5-strings rule.
BadListDocs ==
  {With(GoodDoc, k, x) :
     k \in CountedKeys,
     x \in {<<"arr", << >>>>, StrList(<<"a", "b">>), StrList(<<"a", "b", "c", "d", "e", "f">>),
            <<"arr", << <<"str", <<"a">>>>, <<"num", 1, 0>>, <<"str", <<"c">>>> >>>>,
            <<"str", <<"a", "b", "c">>>>, <<"null">>}}

\* A summary that quotes a fenced snippet.
TickDoc ==
  With(GoodDoc, K_summary, <<"str", <<"u", "s", "e", " ", Tick, Tick, Tick, "x", Tick, Tick, Tick>>>>)

\* JSON values that are no objects.
ScalarDocs == {<<"num", 42, 0>>, <<"null">>, <<"str", <<"h", "i">>>>, <<"arr", << >>>>, <<"bool", TRUE>>}

ProseText ==
    << "S", "u", "r", "e", "!", " ", "H", "e", "r", "e", " ", "i", "s", " ", "m", "y", " ",
       "a", "n", "a", "l", "y", "s", "i", "s", " ", "o", "f", " ", "t", "h", "e", " ", "r",
       "e", "s", "u", "m", "e", "." >>

\* Texts that are not one JSON value: prose, a reply cut off by max_tokens,
\* two objects in a row, prose before the object, nothing, only a fence.
NonJsonTexts ==
  {ProseText,
   SubSeq(DocText(GoodDoc), 1, 120),
   DocText(GoodDoc) \o DocText(GoodDoc),
   DocText(GoodDoc) \o <<"\n">> \o DocText(GoodDoc),
   ProseText \o <<"\n">> \o DocText(GoodDoc),
   << >>,
   Fence \o <<"\n">> \o Fence,
   <<"{", "\"", "a", "\"", ":", "1", ",", "}">>}

Docs == ConformingDocs \cup BadFieldDocs \cup BadListDocs \cup ScalarDocs \cup {TickDoc}

ReplyTexts ==
  {DocText(d) : d \in Docs}
    \cup {Wrap(w, DocText(d)) : w \in {JsonFence, BareFence}, d \in {GoodDoc, TickDoc} \cup ScalarDocs}
    \cup {<<" ", "\n">> \o DocText(GoodDoc) \o <<"\n">>}
    \cup NonJsonTexts
    \cup {Wrap(JsonFence, ProseText)}

\* Replies whose content is a string, replies whose content is none, and
\* replies without a choice or without a message.
Completions ==
  {ContentReply(JStr(t)) : t \in ReplyTexts}
    \cup {ContentReply(Null), ContentReply(Undefined), ContentReply(JNum(42, 0))}
    \cup {Completion(<< >>), Completion(<< Choice(Undefined) >>)}

\* Short replies: a number, an empty object, prose, no content, no choice.
LiveCompletions ==
  {ContentReply(JStr(<<"4", "2">>)), ContentReply(JStr(<<"{", "}">>)),
   ContentReply(JStr(<<"h", "i">>)), ContentReply(Null), Completion(<< >>)}

\* An error object that also carries a status property, as the errors of an
\* HTTP client do; the handlers never read it.
WithStatus(err, status) ==
  [name |-> err.name, message |-> err.message, statusCode |-> err.statusCode,
   stack |-> err.stack, status |-> status]

\* Errors the remote call rejects with.  Some carry no status field, some a
\* status property, some a statusCode property.
UpstreamErrors ==
  {Error("RateLimitError", "429 Rate limit reached", 0),
   Error("APIConnectionError", "Connection error.", 0),
   Error("APIConnectionTimeoutError", "Request timed out.", 0),
   Error("InternalServerError", "500 Internal Server Error", 0),
   Error("Error", "", 0),
   WithStatus(Error("RateLimitError", "429 Rate limit reached", 0), 429),
   WithStatus(Error("AuthenticationError", "401 Invalid API Key", 0), 401),
   WithStatus(Error("Error", "Too Many Requests", 429), 429),
   Error("Error", "Bad Gateway", 502),
   Error("Error", "Not Found", 404)}

(***************************************************************************)
(* The state machine.  Each request runs the handler: Receive is the       *)
(* synchronous part up to the await of line 21, RemoteResolve and          *)
(* RemoteReject settle the promise of the remote call, ResumeFulfilled and *)
(* ResumeRejected are the handler's continuation after the await.          *)
(***************************************************************************)
Reqs == {"A", "B"}

Pending == <<"pending">>

NoBody == Body(Undefined, Undefined)

NodeEnvs == {"development", "production", "unset", "Development"}

\* AfterCompletion, tabulated over the replies and the environments so that
\* it is computed once for each.
ResponseTo ==
  [c \in Completions \cup LiveCompletions \cup {ContentReply(JStr(<<"{">>))} |-> [env \in NodeEnvs |-> AfterCompletion(c, env)]]

NotRun == <<"notrun">>

\* App.jsx lines 62-66: the initial values of useState.
UIInit ==
  /\ uiResume = << >>
  /\ uiJD = << >>
  /\ loading = FALSE
  /\ result = Null
  /\ error = Null
  /\ inflight = << >>

Init ==
  /\ UIInit
  /\ nodeEnv \in NodeEnvs
  /\ pc = [r \in Reqs |-> "idle"]
  /\ body = [r \in Reqs |-> NoBody]
  /\ calls = [r \in Reqs |-> << >>]
  /\ settle = [r \in Reqs |-> Pending]
  /\ responses = [r \in Reqs |-> << >>]
  /\ rawText = << >>
  /\ normalized = NotRun

\* res.status(...).json(...)
Send(r, response) == responses' = [responses EXCEPT ![r] = Append(@, response)]

\* Receive in a server that takes no request while a remote call is
\* outstanding.
ReceiveBlocking(r, b) ==
  /\ pc[r] = "idle"
  /\ \A q \in Reqs : pc[q] # "awaiting"
  /\ body' = [body EXCEPT ![r] = b]
  /\ LET v == Validate(b) IN
       CASE v.kind = "respond" ->
              /\ Send(r, v.response)
              /\ pc' = [pc EXCEPT ![r] = "done"]
              /\ UNCHANGED calls
         [] v.kind = "throw" ->
              /\ Send(r, ErrorHandler(v.error, nodeEnv))
              /\ pc' = [pc EXCEPT ![r] = "done"]
              /\ UNCHANGED calls
         [] v.kind = "ok" ->
              /\ calls' = [calls EXCEPT ![r] = Append(@, CompletionRequest(b))]
              /\ pc' = [pc EXCEPT ![r] = "awaiting"]
              /\ UNCHANGED responses
  /\ UNCHANGED <<nodeEnv, settle, normalizerVars, uiVars>>

\* lines 7-21 and, when they throw, lines 72-75 with the global error handler.
Receive(r, b) ==
  /\ pc[r] = "idle"
  /\ body' = [body EXCEPT ![r] = b]
  /\ LET v == Validate(b) IN
       CASE v.kind = "respond" ->
              /\ Send(r, v.response)
              /\ pc' = [pc EXCEPT ![r] = "done"]
              /\ UNCHANGED calls
         [] v.kind = "throw" ->
              /\ Send(r, ErrorHandler(v.error, nodeEnv))
              /\ pc' = [pc EXCEPT ![r] = "done"]
              /\ UNCHANGED calls
         [] v.kind = "ok" ->
              /\ calls' = [calls EXCEPT ![r] = Append(@, CompletionRequest(b))]
              /\ pc' = [pc EXCEPT ![r] = "awaiting"]
              /\ UNCHANGED responses
  /\ UNCHANGED <<nodeEnv, settle, normalizerVars, uiVars>>

\* The remote service answers the call of request r.
RemoteResolve(r, completion) ==
  /\ pc[r] = "awaiting"
  /\ settle[r] = Pending
  /\ settle' = [settle EXCEPT ![r] = <<"resolved", completion>>]
  /\ UNCHANGED <<nodeEnv, pc, body, calls, responses, normalizerVars, uiVars>>

\* The remote call of request r fails.
RemoteReject(r, err) ==
  /\ pc[r] = "awaiting"
  /\ settle[r] = Pending
  /\ settle' = [settle EXCEPT ![r] = <<"rejected", err>>]
  /\ UNCHANGED <<nodeEnv, pc, body, calls, responses, normalizerVars, uiVars>>

\* ResumeFulfilled whose inner catch lacks the return: after the format
\* failure the handler goes on to line 70 and responds again.
ResumeFulfilledNoReturn(r) ==
  /\ pc[r] = "awaiting"
  /\ settle[r][1] = "resolved"
  /\ LET first == ResponseTo[settle[r][2]][nodeEnv] IN
       IF first = FormatFailure
       THEN responses' = [responses EXCEPT ![r] = @ \o << first, Success(Undefined) >>]
       ELSE Send(r, first)
  /\ pc' = [pc EXCEPT ![r] = "done"]
  /\ UNCHANGED <<nodeEnv, body, calls, settle, normalizerVars, uiVars>>

\* ResumeFulfilled with the completion kept in a variable of the module, which
\* the latest resolved call of any request overwrites.
ResumeFulfilledShared(r) ==
  /\ pc[r] = "awaiting"
  /\ settle[r][1] = "resolved"
  /\ LET others == {q \in Reqs \ {r} : settle[q][1] = "resolved"}
         from == IF others = {} THEN r ELSE CHOOSE q \in others : TRUE
     IN Send(r, ResponseTo[settle[from][2]][nodeEnv])
  /\ pc' = [pc EXCEPT ![r] = "done"]
  /\ UNCHANGED <<nodeEnv, body, calls, settle, normalizerVars, uiVars>>

\* lines 57-70
ResumeFulfilled(r) ==
  /\ pc[r] = "awaiting"
  /\ settle[r][1] = "resolved"
  /\ Send(r, ResponseTo[settle[r][2]][nodeEnv])
  /\ pc' = [pc EXCEPT ![r] = "done"]
  /\ UNCHANGED <<nodeEnv, body, calls, settle, normalizerVars, uiVars>>

\* ResumeRejected with one retry of the failed call before giving up.
ResumeRejectedRetry(r) ==
  /\ pc[r] = "awaiting"
  /\ settle[r][1] = "rejected"
  /\ IF Len(calls[r]) < 2
       THEN /\ calls' = [calls EXCEPT ![r] = Append(@, @[1])]
            /\ settle' = [settle EXCEPT ![r] = Pending]
            /\ UNCHANGED <<pc, responses>>
       ELSE /\ Send(r, AfterRejection(settle[r][2], nodeEnv))
            /\ pc' = [pc EXCEPT ![r] = "done"]
            /\ UNCHANGED <<calls, settle>>
  /\ UNCHANGED <<nodeEnv, body, normalizerVars, uiVars>>

\* lines 72-75
ResumeRejected(r) ==
  /\ pc[r] = "awaiting"
  /\ settle[r][1] = "rejected"
  /\ Send(r, AfterRejection(settle[r][2], nodeEnv))
  /\ pc' = [pc EXCEPT ![r] = "done"]
  /\ UNCHANGED <<nodeEnv, body, calls, settle, normalizerVars, uiVars>>

\* One request, every body, every reply.
Solo == {"A"}

Next ==
  \E r \in Solo :
    \/ \E b \in Bodies : Receive(r, b)
    \/ \E c \in Completions : RemoteResolve(r, c)
    \/ \E e \in UpstreamErrors : RemoteReject(r, e)
    \/ ResumeFulfilled(r)
    \/ ResumeRejected(r)

Spec == Init /\ [][Next]_vars

(***************************************************************************)
(* The same machine under the scheduling Node guarantees: once the promise *)
(* of the remote call has settled, the handler's continuation runs.        *)
(* Nothing obliges the remote service to answer.                           *)
(***************************************************************************)
LiveBodies ==
  {Body(r, j) : r \in {Undefined, JNum(12345, 0), JStr(Sample(10)), GoodResume,
                       JStr(Padded(MaxPad, MinResumeLen, MaxPad))},
                j \in {Null, JBool(TRUE), JStr(Sample(10)), GoodJD,
                       JStr(Padded(MaxPad, MinJDLen, MaxPad))}}

LiveNext ==
  \E r \in Solo :
    \/ \E b \in LiveBodies : Receive(r, b)
    \/ \E c \in LiveCompletions : RemoteResolve(r, c)
    \/ \E e \in UpstreamErrors : RemoteReject(r, e)
    \/ ResumeFulfilled(r)
    \/ ResumeRejected(r)

LiveSpec ==
  /\ Init
  /\ [][LiveNext]_vars
  /\ \A r \in Solo : WF_vars(ResumeFulfilled(r)) /\ WF_vars(ResumeRejected(r))

(***************************************************************************)
(* Two requests in flight at once, interleaved in every order, on fewer    *)
(* bodies and replies.                                                     *)
(***************************************************************************)
\* A resume that ends with the job description header and more text, and a
\* job description that holds the header between two texts.
ResumeWithHeader == JStr(Sample(50) \o UserMid \o Sample(30))

JDWithHeader == JStr(Sample(30) \o UserMid \o Sample(30))

\* Two bodies that differ in white space only, two whose texts hold the
\* header, a short resume and a resume that is no string.
PairBodies ==
  {Body(GoodResume, GoodJD),
   Body(JStr(Padded(1, 60, 1)), JStr(Padded(0, 40, 1))),
   Body(ResumeWithHeader, JStr(Sample(30))),
   Body(JStr(Sample(50)), JDWithHeader),
   Body(JStr(Sample(10)), GoodJD),
   Body(JBool(TRUE), GoodJD)}

PairCompletions ==
  {ContentReply(JStr(DocText(GoodDoc))), ContentReply(JStr(ProseText)),
   ContentReply(JStr(<<"{">>)), Completion(<< >>)}

PairErrors ==
  {Error("RateLimitError", "429 Rate limit reached", 0),
   Error("APIConnectionError", "Connection error.", 0)}

PairNext ==
  \E r \in Reqs :
    \/ \E b \in PairBodies : Receive(r, b)
    \/ \E c \in PairCompletions : RemoteResolve(r, c)
    \/ \E e \in PairErrors : RemoteReject(r, e)
    \/ ResumeFulfilled(r)
    \/ ResumeRejected(r)

PairSpec == Init /\ [][PairNext]_vars

(***************************************************************************)
(* The frontend: the App component (App.jsx) and the axios client of       *)
(* services/api.js.  A message of the user interface is kept as one        *)
(* string.                                                                 *)
(***************************************************************************)
MaxInflight == 2

ClientMinResume == 50

ClientMinJD == 30

ClientResumeMsg == "Please paste a resume with at least 50 characters."

ClientJDMsg == "Please paste a job description with at least 30 characters."

FallbackMsg == "An unexpected error occurred"

FailedMsg == "Failed to analyze. Please try again."

\* A string held by the error state.
Msg(s) == <<"str", s>>

\* What the user may type: nothing, blanks, a short text, acceptable texts.
UiResumeTexts == {<< >>, Rep(" ", 3), Sample(10), Sample(60), Padded(1, ClientMinResume, 1)}

UiJDTexts == {<< >>, Sample(10), Sample(40), Padded(1, ClientMinJD, 1)}

\* The HTTP responses the client may get: those of the backend, and replies
\* of a proxy in front of it, with a message field, with both fields, with an
\* empty error field, or with neither field.
ApiResponses ==
  {Success(DocValue(GoodDoc)), Success(Null),
   Response(400, [error |-> ResumeTooShortMsg]),
   Response(400, [error |-> JDTooShortMsg]),
   FormatFailure,
   ErrorHandler(Error("APIConnectionError", "Connection error.", 0), "development"),
   ErrorHandler(Error("Error", "", 0), "production"),
   Response(502, [message |-> "Bad Gateway"]),
   Response(500, [error |-> "Upstream failed", message |-> "Internal"]),
   Response(500, [error |-> "", message |-> "Only a message"]),
   Response(504, [detail |-> "Gateway Timeout"])}

\* The messages of the errors axios raises when no response arrives.
TransportMessages == {"Network Error", "timeout of 60000ms exceeded", ""}

\* A field of a response body that is read with ?. and ||: absent is falsy,
\* like the empty string.
Field(d, k) == IF k \in DOMAIN d THEN d[k] ELSE ""

\* api.js lines 47-51 with the operands of the first two || exchanged.
InterceptedMessageSwapped(err) ==
  LET d == IF "response" \in DOMAIN err THEN err.response.data ELSE [x \in {} |-> ""] IN
  IF Field(d, "message") # "" THEN d.message
  ELSE IF Field(d, "error") # "" THEN d.error
  ELSE IF err.message # "" THEN err.message
  ELSE FallbackMsg

\* api.js lines 47-51
InterceptedMessage(err) ==
  LET d == IF "response" \in DOMAIN err THEN err.response.data ELSE [x \in {} |-> ""] IN
  IF Field(d, "error") # "" THEN d.error
  ELSE IF Field(d, "message") # "" THEN d.message
  ELSE IF err.message # "" THEN err.message
  ELSE FallbackMsg

\* api.js lines 45-56: the error leaves the interceptor with its userMessage.
Intercept(err) == [cause |-> err, userMessage |-> InterceptedMessage(err)]

\* How the promise of apiClient.post settles on a response: axios fulfils on
\* a 2xx status and rejects on any other.
OnResponse(resp) ==
  IF resp.status \in 200..299
  THEN <<"fulfilled", [status |-> resp.status, data |-> resp.body]>>
  ELSE <<"rejected",
         Intercept([response |-> [status |-> resp.status, data |-> resp.body],
                    message |-> "Request failed with status code " \o ToString(resp.status)])>>

\* How it settles when no response arrives: network failure, or the timeout
\* of api.js line 28.
OnNoResponse(m) == <<"rejected", Intercept([message |-> m])>>

ApiOutcomes == {OnResponse(resp) : resp \in ApiResponses} \cup {OnNoResponse(m) : m \in TransportMessages}

\* App.jsx line 194 with the loading test left out of the disabled attribute.
ButtonEnabledWhileLoading == Trim(uiResume) # << >> /\ Trim(uiJD) # << >>

\* App.jsx line 194: the Analyze button is not disabled.
ButtonEnabled == ~loading /\ Trim(uiResume) # << >> /\ Trim(uiJD) # << >>

\* App.jsx lines 208 and 252: the Reset button and the results are rendered.
ResultsShown == Truthy(result) /\ ~loading

\* App.jsx line 241: the error panel is rendered.
ErrorShown == error # Null /\ ~loading

\* The payload of api.js lines 60-63.
Payload(resume, jd) == [resume |-> resume, jobDescription |-> jd]

\* onChange of the resume textarea, App.jsx lines 155-163.
EditResume(t) ==
  /\ ~loading
  /\ uiResume' = t
  /\ UNCHANGED <<uiJD, loading, result, error, inflight, handlerVars, normalizerVars>>

\* onChange of the job description textarea, App.jsx lines 173-181.
EditJD(t) ==
  /\ ~loading
  /\ uiJD' = t
  /\ UNCHANGED <<uiResume, loading, result, error, inflight, handlerVars, normalizerVars>>

\* handleAnalyze clearing the previous result and error before it validates.
HandleAnalyzeClearingFirst ==
  /\ IF Len(Trim(uiResume)) < ClientMinResume
       THEN error' = Msg(ClientResumeMsg) /\ result' = Null /\ UNCHANGED <<loading, inflight>>
     ELSE IF Len(Trim(uiJD)) < ClientMinJD
       THEN error' = Msg(ClientJDMsg) /\ result' = Null /\ UNCHANGED <<loading, inflight>>
     ELSE /\ loading' = TRUE
          /\ error' = Null
          /\ result' = Null
          /\ inflight' = Append(inflight, <<"pending", Payload(Trim(uiResume), Trim(uiJD))>>)
  /\ UNCHANGED <<uiResume, uiJD, handlerVars, normalizerVars>>

\* App.jsx lines 86-102: handleAnalyze up to its await.
HandleAnalyze ==
  /\ IF Len(Trim(uiResume)) < ClientMinResume
       THEN error' = Msg(ClientResumeMsg) /\ UNCHANGED <<loading, result, inflight>>
     ELSE IF Len(Trim(uiJD)) < ClientMinJD
       THEN error' = Msg(ClientJDMsg) /\ UNCHANGED <<loading, result, inflight>>
     ELSE /\ loading' = TRUE
          /\ error' = Null
          /\ result' = Null
          /\ inflight' = Append(inflight, <<"pending", Payload(Trim(uiResume), Trim(uiJD))>>)
  /\ UNCHANGED <<uiResume, uiJD, handlerVars, normalizerVars>>

\* A click on the Analyze button, App.jsx lines 187-195.
ClickAnalyze ==
  /\ ButtonEnabled
  /\ Len(inflight) < MaxInflight
  /\ HandleAnalyze

\* A click on the Reset button, App.jsx lines 208-215.
Reset ==
  /\ ResultsShown
  /\ result' = Null
  /\ error' = Null
  /\ uiResume' = << >>
  /\ uiJD' = << >>
  /\ UNCHANGED <<loading, inflight, handlerVars, normalizerVars>>

\* The promise of apiClient.post settles, api.js lines 43-57 and 60.
ApiSettle(i, outcome) ==
  /\ i \in 1..Len(inflight)
  /\ inflight[i][1] = "pending"
  /\ inflight' = [inflight EXCEPT ![i] = outcome]
  /\ UNCHANGED <<uiResume, uiJD, loading, result, error, handlerVars, normalizerVars>>

\* handleAnalyze after its await, with setLoading(false) at the end of the
\* try block and no finally.
ContinueNoFinally(i) ==
  /\ i \in 1..Len(inflight)
  /\ inflight[i][1] # "pending"
  /\ LET p == inflight[i] IN
       IF p[1] = "fulfilled"
       THEN /\ result' = (IF "data" \in DOMAIN p[2].data THEN p[2].data.data ELSE Undefined)
            /\ loading' = FALSE
            /\ UNCHANGED error
       ELSE /\ error' = Msg(IF p[2].userMessage # "" THEN p[2].userMessage ELSE FailedMsg)
            /\ UNCHANGED <<result, loading>>
  /\ inflight' = [k \in 1..(Len(inflight) - 1) |-> IF k < i THEN inflight[k] ELSE inflight[k + 1]]
  /\ UNCHANGED <<uiResume, uiJD, handlerVars, normalizerVars>>

\* App.jsx lines 102-109 and api.js line 64: handleAnalyze after its await.
Continue(i) ==
  /\ i \in 1..Len(inflight)
  /\ inflight[i][1] # "pending"
  /\ LET p == inflight[i] IN
       IF p[1] = "fulfilled"
       THEN /\ result' = (IF "data" \in DOMAIN p[2].data THEN p[2].data.data ELSE Undefined)
            /\ UNCHANGED error
       ELSE /\ error' = Msg(IF p[2].userMessage # "" THEN p[2].userMessage ELSE FailedMsg)
            /\ UNCHANGED result
  /\ loading' = FALSE
  /\ inflight' = [k \in 1..(Len(inflight) - 1) |-> IF k < i THEN inflight[k] ELSE inflight[k + 1]]
  /\ UNCHANGED <<uiResume, uiJD, handlerVars, normalizerVars>>

UINext ==
  \/ \E t \in UiResumeTexts : EditResume(t)
  \/ \E t \in UiJDTexts : EditJD(t)
  \/ ClickAnalyze
  \/ Reset
  \/ \E i \in 1..MaxInflight : \E outcome \in ApiOutcomes : ApiSettle(i, outcome)
  \/ \E i \in 1..MaxInflight : Continue(i)

UISpec == Init /\ [][UINext]_vars

\* The promise settles, by the timeout of api.js line 28 at the latest, and
\* the event loop then runs the continuation of handleAnalyze.
UILiveSpec ==
  /\ UISpec
  /\ WF_vars(\E i \in 1..MaxInflight : \E outcome \in ApiOutcomes : ApiSettle(i, outcome))
  /\ WF_vars(\E i \in 1..MaxInflight : Continue(i))

(***************************************************************************)
(* What the specification says of a request and of a result.               *)
(***************************************************************************)
IsText(v) == TypeOf(v) = "str"

TrimmedLen(v) == Len(Trim(v[2]))

ShortAfterTrim(v, min) == IsText(v) /\ TrimmedLen(v) < min

LongEnough(v, min) == IsText(v) /\ TrimmedLen(v) >= min

\* The field is left out of the body, or null.
Missing(v) == v \in {Undefined, Null}

Received(r) == pc[r] # "idle"

Answered(r) == pc[r] = "done"

\* The request got one response, of a 4xx status, with an error message.
ClientFault(r) ==
  /\ Len(responses[r]) = 1
  /\ responses[r][1].status \in 400..499
  /\ "error" \in DOMAIN responses[r][1].body

\* The request got one response, of a 5xx status, with an error message and
\* no success flag.
ServerFault(r) ==
  /\ Len(responses[r]) = 1
  /\ responses[r][1].status \in 500..599
  /\ "error" \in DOMAIN responses[r][1].body
  /\ "success" \notin DOMAIN responses[r][1].body

\* The remote call of r resolved with a reply whose content is a string.
RepliedText(r) ==
  /\ settle[r][1] = "resolved"
  /\ Len(settle[r][2].choices) > 0
  /\ settle[r][2].choices[1].message # Undefined
  /\ IsText(settle[r][2].choices[1].message[2])

ReplyText(r) == settle[r][2].choices[1].message[2][2]

\* An integer between lo and hi.
IsIntegerIn(v, lo, hi) ==
  /\ TypeOf(v) = "num"
  /\ v[3] \in 0..3
  /\ LET n == v[2] * (CASE v[3] = 0 -> 1 [] v[3] = 1 -> 10 [] v[3] = 2 -> 100 [] v[3] = 3 -> 1000)
     IN lo <= n /\ n <= hi

IsStringList(v) ==
  TypeOf(v) = "arr" /\ \A i \in 1..Len(v[2]) : TypeOf(v[2][i]) = "str"

IsObject(v) == TypeOf(v) = "obj"

Has(v, k) == k \in DOMAIN v[2]

\* An object that lacks a required field, or whose matchScore is no integer
\* in [0,100], or whose performanceRating is none of the five ratings.
BreaksFieldSchema(v) ==
  /\ IsObject(v)
  /\ \/ \E k \in RequiredKeys : ~Has(v, k)
     \/ Has(v, K_matchScore) /\ ~IsIntegerIn(v[2][K_matchScore], 0, 100)
     \/ Has(v, K_performanceRating)
          /\ ~(IsText(v[2][K_performanceRating]) /\ v[2][K_performanceRating][2] \in Ratings)

\* An object one of whose counted array fields is no sequence of 3 to 5 strings.
BreaksListSchema(v) ==
  /\ IsObject(v)
  /\ \E k \in CountedKeys :
       Has(v, k) /\ ~(IsStringList(v[2][k]) /\ Len(v[2][k][2]) \in 3..5)

\* AnalysisResult of the specification, section 3.
Conforms(v) ==
  /\ IsObject(v)
  /\ ~BreaksFieldSchema(v)
  /\ ~BreaksListSchema(v)
  /\ IsStringList(v[2][K_keywordsFound])
  /\ IsStringList(v[2][K_keywordsMissing])
  /\ IsText(v[2][K_summary])

\* The conforming results among the documents: the JSON text of each and the
\* value it denotes.
ConformingResults ==
  {[text |-> DocText(d), value |-> DocValue(d)] : d \in {x \in Docs : Conforms(DocValue(x))}}

Prefix(s, n) == SubSeq(s, 1, IF Len(s) < n THEN Len(s) ELSE n)

Min(a, b) == IF a < b THEN a ELSE b

(***************************************************************************)
(* The claims.                                                             *)
(***************************************************************************)
\* C1: a request whose resume has fewer than 50 characters after trimming, or
\* whose job description has fewer than 30 characters after trimming, gets a
\* client-fault validation response and no remote call is made for it.
C1_ShortInputIsClientFault ==
  \A r \in Reqs :
    (Received(r) /\ (\/ ShortAfterTrim(body[r].resume, MinResumeLen)
                     \/ ShortAfterTrim(body[r].jobDescription, MinJDLen)))
      => Answered(r) /\ ClientFault(r) /\ calls[r] = << >>

\* C2: a request one of whose inputs is absent or is not a string gets a
\* client-fault validation response and no remote call is made for it.
C2_NonStringIsClientFault ==
  \A r \in Reqs :
    (Received(r) /\ (~IsText(body[r].resume) \/ ~IsText(body[r].jobDescription)))
      => Answered(r) /\ ClientFault(r) /\ calls[r] = << >>

\* C3: a model output that parses to an object lacking a required field, or
\* with a matchScore that is no integer in [0,100], or with an unknown
\* performanceRating, is answered by a server-fault failure, never by a
\* success carrying that object.
C3_BadFieldsAreFormatFailure ==
  \A r \in Reqs :
    (Answered(r) /\ RepliedText(r) /\ Normalize(JStr(ReplyText(r))).ok
       /\ BreaksFieldSchema(Normalize(JStr(ReplyText(r))).val))
      => ServerFault(r)

\* C4: no success response carries data one of whose fields strengths,
\* weaknesses, improvementSuggestions is not a sequence of 3 to 5 strings.
C4_NoSuccessWithBadLists ==
  \A r \in Reqs : \A i \in 1..Len(responses[r]) :
    "data" \in DOMAIN responses[r][i].body => ~BreaksListSchema(responses[r][i].body.data)

\* C6: the user message of the remote call embeds exactly the first
\* min(length, 6000) characters of the trimmed resume and the first
\* min(length, 3000) characters of the trimmed job description, so a longer
\* text is embedded with exactly the length of its cap.
C6_PromptEmbedsCappedPrefix ==
  \A r \in Reqs : \A i \in 1..Len(calls[r]) :
    LET resume == Trim(body[r].resume[2])
        jd == Trim(body[r].jobDescription[2])
        content == calls[r][i].messages[2].content
    IN /\ content = UserHead \o Prefix(resume, 6000) \o UserMid \o Prefix(jd, 3000) \o UserTail
       /\ Len(content) - Len(UserHead) - Len(UserMid) - Len(UserTail)
            = Min(Len(resume), 6000) + Min(Len(jd), 3000)

\* A call was made for a resume and a job description both over their caps.
C6_Witness ==
  \E r \in Reqs :
    /\ Len(calls[r]) = 1
    /\ TrimmedLen(body[r].resume) > 6000
    /\ TrimmedLen(body[r].jobDescription) > 3000

\* C7: when the remote call succeeds and the stripped, trimmed content is not
\* one JSON value, the request gets exactly one response: status 500 with the
\* body {error: AI returned unexpected format. Please try again.}.
C7_UnparseableIsFormatFailure ==
  \A r \in Reqs :
    (Answered(r) /\ RepliedText(r) /\ ~JSONParse(Cleaned(ReplyText(r))).ok)
      => responses[r] =
           << [status |-> 500,
               body |-> [error |-> "AI returned unexpected format. Please try again."]] >>

\* A request was answered after the model replied with prose.
C7_Witness ==
  \E r \in Reqs : Answered(r) /\ RepliedText(r) /\ ReplyText(r) = ProseText

\* C8: a request whose resume is missing or shorter than 50 characters after
\* trimming gets status 400 with the resume message, whatever the job
\* description is; a request with a valid resume whose job description is
\* missing or shorter than 30 characters after trimming gets status 400 with
\* the job description message.
C8_ValidationMessages ==
  \A r \in Reqs :
    Received(r) =>
      /\ (Missing(body[r].resume) \/ ShortAfterTrim(body[r].resume, 50))
           => responses[r] =
                << [status |-> 400,
                    body |-> [error |-> "Resume must be at least 50 characters."]] >>
      /\ (LongEnough(body[r].resume, 50)
            /\ (Missing(body[r].jobDescription) \/ ShortAfterTrim(body[r].jobDescription, 30)))
           => responses[r] =
                << [status |-> 400,
                    body |-> [error |-> "Job description must be at least 30 characters."]] >>

\* A request with a short resume and an invalid job description was answered.
C8_Witness ==
  \E r \in Reqs :
    /\ Answered(r)
    /\ ShortAfterTrim(body[r].resume, 50)
    /\ ~LongEnough(body[r].jobDescription, 30)

\* C9: when the stripped, trimmed content of the reply is the JSON text of a
\* conforming result, the request gets exactly one response: status 200 with
\* the body {success: true, data: d}, d being the value that text denotes.
C9_SuccessCarriesParsedValue ==
  \A r \in Reqs :
    (Answered(r) /\ RepliedText(r)) =>
      \A c \in ConformingResults :
        Cleaned(ReplyText(r)) = c.text
          => responses[r] = << [status |-> 200, body |-> [success |-> TRUE, data |-> c.value]] >>

\* A request was answered after the model replied with a fenced conforming
\* result.
C9_Witness ==
  \E r \in Reqs :
    /\ Answered(r)
    /\ RepliedText(r)
    /\ ReplyText(r) = Wrap(JsonFence, DocText(GoodDoc))
    /\ DocText(GoodDoc) \in {c.text : c \in ConformingResults}

\* C10: a request whose remote call is outstanding eventually gets a response,
\* also when the remote service never answers.  The handler sets no timer
\* (analyze.js line 5 passes the API key only), so under LiveSpec this holds
\* only of the behaviours in which the client library settles the call.
C10_CallIsBounded ==
  \A r \in Reqs : (pc[r] = "awaiting") ~> (Len(responses[r]) > 0)

\* The remote call of r failed.
Rejected(r) == settle[r][1] = "rejected"

\* C11: whenever the remote call fails, whatever status fields the error
\* carries, the request ends with exactly one response of a 5xx status that
\* carries an error message and is no success.
C11_UpstreamFailureIsServerFault ==
  \A r \in Reqs : (Answered(r) /\ Rejected(r)) => ServerFault(r)

\* The remote call of r resolved and the handler answered with the format
\* failure.
FormatFailed(r) ==
  /\ settle[r][1] = "resolved"
  /\ responses[r] = << FormatFailure >>

\* C12: outside development mode the body of an upstream-failure response
\* does not depend on the error, nor does that of a format-failure response:
\* two requests that failed the same way got the same body.
C12_FailureBodyIsGeneric ==
  \A r1, r2 \in Reqs :
    (nodeEnv # "development" /\ Answered(r1) /\ Answered(r2))
      => /\ (Rejected(r1) /\ Rejected(r2))
              => responses[r1][1].body = responses[r2][1].body
         /\ (FormatFailed(r1) /\ FormatFailed(r2))
              => responses[r1][1].body = responses[r2][1].body

\* The response of r came from the global error handler: the validation
\* threw, the remote call failed, or the reply held no choice or message.
ViaErrorHandler(r) ==
  \/ Validate(body[r]).kind = "throw"
  \/ Rejected(r)
  \/ settle[r][1] = "resolved" /\ RawContent(settle[r][2]).kind = "throw"

\* C13: a response of the global error handler holds the stack of the error
\* if and only if NODE_ENV is exactly development.
C13_StackOnlyInDevelopment ==
  \A r \in Reqs :
    (Answered(r) /\ ViaErrorHandler(r))
      => /\ Len(responses[r]) = 1
         /\ ("stack" \in DOMAIN responses[r][1].body) <=> (nodeEnv = "development")

\* The remote call failed with NODE_ENV set to Development, capitalised.
C13_Witness ==
  \E r \in Reqs : Answered(r) /\ Rejected(r) /\ nodeEnv = "Development"

SuccessBody(b) ==
  /\ "success" \in DOMAIN b /\ b.success = TRUE
  /\ "data" \in DOMAIN b
  /\ "error" \notin DOMAIN b

FailureBody(b) ==
  /\ "error" \in DOMAIN b
  /\ "data" \notin DOMAIN b
  /\ ~("success" \in DOMAIN b /\ b.success = TRUE)

\* C14: every response body is either a success body (success = true, data,
\* no error) or a failure body (error, no data, no success = true).
C14_OneEnvelopeVariant ==
  \A r \in Reqs : \A i \in 1..Len(responses[r]) :
    SuccessBody(responses[r][i].body) \/ FailureBody(responses[r][i].body)

\* A success was sent for a reply that parsed to an object.
C14_Witness ==
  \E r \in Reqs :
    /\ Answered(r)
    /\ SuccessBody(responses[r][1].body)
    /\ IsObject(responses[r][1].body.data)

\* Both texts of the body pass the validation.
Accepted(r) ==
  LongEnough(body[r].resume, MinResumeLen) /\ LongEnough(body[r].jobDescription, MinJDLen)

\* C19: a request that passes validation makes exactly one remote call,
\* whether the call succeeds or fails, and any other request makes none.
C19_ExactlyOneCall ==
  \A r \in Reqs :
    Received(r) => Len(calls[r]) = (IF Accepted(r) THEN 1 ELSE 0)

\* A request was answered after its remote call failed.
C19_Witness ==
  \E r \in Reqs : Answered(r) /\ Rejected(r) /\ Len(calls[r]) = 1

\* Fenced documents: the fenced text and the value the inner text denotes.
FencedDocs ==
  {[text |-> Wrap(w, DocText(d)), value |-> JSONParse(DocText(d)).val] :
     w \in {JsonFence, BareFence}, d \in {GoodDoc, TickDoc} \cup ScalarDocs}

\* C20: fence markers are removed at the start and the end of the reply only,
\* so the data sent for a fenced JSON text is the value of the inner text,
\* also when a string inside it holds three backticks.
C20_InnerFencesUntouched ==
  \A r \in Reqs :
    (Answered(r) /\ RepliedText(r)) =>
      \A f \in FencedDocs :
        ReplyText(r) = f.text => responses[r] = << Success(f.value) >>

\* What request r holds: its position, body, calls, settlement, responses.
Own(r) == <<pc[r], body[r], calls[r], settle[r], responses[r]>>

\* The response the handler owes to r, from the body of r, the settlement of
\* the call of r and the environment alone.
OwnOutcome(r) ==
  LET v == Validate(body[r]) IN
  IF v.kind = "respond" THEN v.response
  ELSE IF v.kind = "throw" THEN ErrorHandler(v.error, nodeEnv)
  ELSE IF settle[r][1] = "resolved" THEN AfterCompletion(settle[r][2], nodeEnv)
  ELSE AfterRejection(settle[r][2], nodeEnv)

\* C15: concurrent requests are isolated.  In every interleaving the response
\* to a request is the one its own body and the settlement of its own call
\* determine, and a step taken for one request changes nothing another holds.
C15_RequestsAreIsolated ==
  /\ [](\A r \in Reqs : Answered(r) => responses[r] = << OwnOutcome(r) >>)
  /\ [][\A r \in Reqs : Own(r)' # Own(r) => \A q \in Reqs \ {r} : Own(q)' = Own(q)]_vars

\* Two requests were answered, one after a reply and one after a failure.
C15_Witness ==
  \E r, q \in Reqs :
    /\ r # q /\ Answered(r) /\ Answered(q)
    /\ settle[r][1] = "resolved" /\ Rejected(q)
    /\ body[r] # body[q]

\* The remote call of q is outstanding.
Outstanding(q) == pc[q] = "awaiting" /\ settle[q] = Pending

\* C16: an outstanding remote call blocks no other request.  While the call
\* of one request is outstanding, another request can be received and
\* validated and can issue its own call, and once its own call has settled
\* its continuation can run and answer it.
C16_CallBlocksNoOtherRequest ==
  \A q \in Reqs : \A r \in Reqs \ {q} :
    Outstanding(q) =>
      /\ pc[r] = "idle" => \A b \in PairBodies : ENABLED Receive(r, b)
      /\ (pc[r] = "awaiting" /\ settle[r] # Pending)
           => ENABLED (ResumeFulfilled(r) \/ ResumeRejected(r))

\* One request got its success response while the call of the other was
\* still outstanding.
C16_Witness ==
  \E q \in Reqs : \E r \in Reqs \ {q} :
    /\ Outstanding(q)
    /\ Answered(r)
    /\ responses[r] = << Success(DocValue(GoodDoc)) >>

\* A remote call was made for r.
Called(r) == Len(calls[r]) = 1

SameTrimmed(r, q) ==
  /\ Trim(body[r].resume[2]) = Trim(body[q].resume[2])
  /\ Trim(body[r].jobDescription[2]) = Trim(body[q].jobDescription[2])

\* C17: two accepted requests with the same trimmed resume and the same
\* trimmed job description make the same remote call, with the fixed model,
\* temperature 0.2, max_tokens 1000, and a system then a user message.
C17_PromptIsDeterministic ==
  \A r, q \in Reqs :
    (Called(r) /\ Called(q) /\ SameTrimmed(r, q))
      => /\ calls[r] = calls[q]
         /\ calls[r][1].model = "llama-3.3-70b-versatile"
         /\ calls[r][1].temperature = <<2, 10>>
         /\ calls[r][1].max_tokens = 1000
         /\ Len(calls[r][1].messages) = 2
         /\ calls[r][1].messages[1].role = "system"
         /\ calls[r][1].messages[2].role = "user"

\* Two requests whose bodies differ in white space only have made their calls.
C17_Witness ==
  \E r, q \in Reqs :
    Called(r) /\ Called(q) /\ body[r] # body[q] /\ SameTrimmed(r, q)

\* C18: two requests whose pairs of truncated resume and truncated job
\* description differ never send the same user message, also when the texts
\* hold the section headers.
C18_UserMessageIsUnambiguous ==
  \A r, q \in Reqs :
    (Called(r) /\ Called(q)
       /\ <<SafeResume(body[r]), SafeJD(body[r])>> # <<SafeResume(body[q]), SafeJD(body[q])>>)
      => calls[r][1].messages[2].content # calls[q][1].messages[2].content

\* C21: when the remote call resolves with a reply that has no usable content
\* (no choice, no message, or a content that is no string), the request is
\* answered with one server-fault failure response, never with a success.
C21_NoContentIsServerFault ==
  \A r \in Reqs :
    (Answered(r) /\ settle[r][1] = "resolved" /\ ~RepliedText(r)) => ServerFault(r)

\* A request was answered after a reply without any choice.
C21_Witness ==
  \E r \in Reqs :
    Answered(r) /\ settle[r][1] = "resolved" /\ Len(settle[r][2].choices) = 0

\* C22: a request that has run to its end got exactly one response, and a
\* request that has not got none.
C22_ExactlyOneResponse ==
  \A r \in Reqs : Len(responses[r]) = (IF Answered(r) THEN 1 ELSE 0)

\* The handler itself answered with the format failure, inside the outer try.
C22_Witness ==
  \E r \in Reqs : Answered(r) /\ FormatFailed(r)

(***************************************************************************)
(* The user interface.                                                     *)
(***************************************************************************)
\* C23: in the UI every run of handleAnalyze that sets loading to true
\* eventually sets it back to false, whether the API call succeeds, fails
\* with a server error, or fails with a network error or the client timeout:
\* loading never stays true forever, and no promise stays unhandled.
C23_LoadingEnds == loading ~> (~loading /\ inflight = << >>)

C23_Witness == ~loading /\ error = Msg("timeout of 60000ms exceeded")

C25_NeverBothPanels == ~(result # Null /\ error # Null)

\* C26: while loading is true, result and error are both null, the resume
\* and jobDescription texts cannot change and no second API request can be
\* started: at most one analyze request is outstanding at any time.
C26_LoadingFreezesThePage ==
  /\ [](Len(inflight) <= 1 /\ (loading => (result = Null /\ error = Null)))
  /\ [][loading => (/\ uiResume' = uiResume
                     /\ uiJD' = uiJD
                     /\ Len(inflight') <= Len(inflight))]_vars

C26_Witness == loading /\ Len(inflight) = 1 /\ inflight[1][1] = "pending"

\* The text the claim prescribes for a failed call.
Prescribed(err) ==
  LET sent == IF "response" \in DOMAIN err THEN err.response.data ELSE [x \in {} |-> ""]
      Present(k) == k \in DOMAIN sent /\ sent[k] # ""
  IN IF Present("error") THEN sent.error
     ELSE IF Present("message") THEN sent.message
     ELSE IF err.message # "" THEN err.message
     ELSE "An unexpected error occurred"

\* The failure responses of the backend for validation and format failures.
BackendFailures ==
  {Response(400, [error |-> ResumeTooShortMsg]),
   Response(400, [error |-> JDTooShortMsg]),
   FormatFailure}

\* C27: when an API call fails, the error text shown is chosen by fixed
\* precedence: the response body's error field if present and non-empty, else
\* the body's message field, else the transport error's message, else
\* 'An unexpected error occurred'; a backend validation or format failure is
\* displayed with exactly the error string the backend sent.
C27_ErrorTextPrecedence ==
  [][(Len(inflight) = 1 /\ inflight[1][1] = "rejected" /\ inflight' = << >>)
     => (/\ error' = Msg(Prescribed(inflight[1][2].cause))
         /\ \A resp \in BackendFailures :
              inflight[1][2].cause = [response |-> [status |-> resp.status, data |-> resp.body],
                                      message |-> "Request failed with status code "
                                                  \o ToString(resp.status)]
              => error' = Msg(resp.body.error))]_vars

C27_Witness == ~loading /\ error = Msg("Only a message")

(***************************************************************************)
(* The normalizer on its own: a raw text is drawn, then stripped and       *)
(* parsed as lines 61-65 do.                                               *)
(***************************************************************************)
Fragments ==
  { <<Tick>>, Fence, <<"j", "s", "o", "n">>, <<"J", "s", "O", "N">>, <<" ">>, <<"\n">>,
    <<"1">>, <<"\"">>, <<"[", "]">> }

\* The concatenations of at most n fragments.
RECURSIVE TextsOf(_)
TextsOf(n) ==
  IF n = 0 THEN {<< >>}
  ELSE LET shorter == TextsOf(n - 1) IN shorter \cup {t \o f : t \in shorter, f \in Fragments}

RawTexts == TextsOf(MaxFrags)

NormalizerInit ==
  /\ UIInit
  /\ nodeEnv = "production"
  /\ pc = [r \in Reqs |-> "idle"]
  /\ body = [r \in Reqs |-> NoBody]
  /\ calls = [r \in Reqs |-> << >>]
  /\ settle = [r \in Reqs |-> Pending]
  /\ responses = [r \in Reqs |-> << >>]
  /\ rawText \in RawTexts
  /\ normalized = NotRun

\* The stripped text (before trim) and the outcome of the inner try.
RunNormalizer ==
  /\ normalized = NotRun
  /\ normalized' = <<"ran", StripFences(rawText), Normalize(JStr(rawText))>>
  /\ UNCHANGED <<rawText, handlerVars, uiVars>>

NormalizerNext == RunNormalizer

NormalizerSpec == NormalizerInit /\ [][NormalizerNext]_vars

HasFence(t) == \E i \in 1..Len(t) : IsFenceAt(t, i)

\* C5: fence stripping is an equivalence and idempotent.  A text wrapped in a
\* fence (bare or tagged json in any case, white space after the opening
\* marker) normalizes to the same outcome as the text itself; stripping the
\* stripped text again changes nothing; stripping a text that holds no fence
\* changes nothing.
C5_FenceEquivalence ==
  normalized # NotRun =>
    /\ \A w \in Wrappers : Normalize(JStr(Wrap(w, rawText))) = normalized[3]
    /\ StripFences(normalized[2]) = normalized[2]
    /\ ~HasFence(rawText) => normalized[2] = rawText

\* A fenced JSON value and a text with fences inside it have been normalized.
C5_Witness ==
  /\ normalized # NotRun
  /\ HasFence(rawText)
  /\ normalized[3].ok
  /\ \E w \in Wrappers : Normalize(JStr(Wrap(w, rawText))).ok

====
